---- MODULE Spec2Model ----
(***************************************************************************)
(* Model of the two admin screens of elora-web:                            *)
(*   RolesPage  (src/unnamed/part_000)                                     *)
(*   UsersPage  (src/src/app/(dashboard)/dashboard/page.tsx)               *)
(* Each screen is a React function component.  Its useState cells are the  *)
(* fields of one record variable (rolesPage, usersPage).  An async handler *)
(* that is suspended at an await is a task record holding the values its   *)
(* closure captured at the render it was called from.  The REST server is  *)
(* the environment: it handles a request in one step and the client        *)
(* applies the response in a later one.                                    *)
(*                                                                         *)
(* Text on which the code computes (role codes, passwords) is a sequence   *)
(* of one-character strings; text that is only stored is a TLA+ string.    *)
(* null / undefined is the empty sequence Null, a present value x is <<x>>.*)
(***************************************************************************)
EXTENDS Integers, Sequences, FiniteSets, TLC

\* ------------------------------------------------------------------ bounds
MaxRoleSubmits == 1  \* submit clicks on the role form
MaxRoleDeletes == 1  \* role delete requests in flight
MaxUserSubmits == 1  \* submit clicks on the user form
MaxUserDeletes == 1  \* user delete requests in flight
MaxCodeLen == 3      \* length of a role code typed key by key

\* ------------------------------------------------------- generic helpers
Null == <<>>
Some(x) == <<x>>

Range(s) == {s[i] : i \in DOMAIN s}

RemoveAt(s, i) == [j \in 1..(Len(s) - 1) |-> IF j < i THEN s[j] ELSE s[j + 1]]

\* Array.prototype.filter
RECURSIVE FilterOutId(_, _)
FilterOutId(list, id) ==
    IF list = <<>> THEN <<>>
    ELSE IF Head(list)._id # id
         THEN <<Head(list)>> \o FilterOutId(Tail(list), id)
         ELSE FilterOutId(Tail(list), id)

Ids(list) == {list[i]._id : i \in DOMAIN list}

\* a || b on an optional string: the empty string is falsy
OrElse(opt, fallback) ==
    IF opt # Null /\ opt[1] # "" THEN opt[1] ELSE fallback

\* what error.response?.data?.message can be
ErrMessages == {Null, Some(""), Some("Request refused by server")}

\* --------------------------------------------------------------- strings
LowerLetters ==
    <<"a", "b", "c", "d", "e", "f", "g", "h", "i", "j", "k", "l", "m",
      "n", "o", "p", "q", "r", "s", "t", "u", "v", "w", "x", "y", "z">>
UpperLetters ==
    <<"A", "B", "C", "D", "E", "F", "G", "H", "I", "J", "K", "L", "M",
      "N", "O", "P", "Q", "R", "S", "T", "U", "V", "W", "X", "Y", "Z">>
Whitespace == {" ", "\t"}

UpperChar(c) ==
    IF \E i \in DOMAIN LowerLetters : LowerLetters[i] = c
    THEN UpperLetters[CHOOSE i \in DOMAIN LowerLetters : LowerLetters[i] = c]
    ELSE c

\* String.prototype.toUpperCase
toUpperCase(s) == [i \in DOMAIN s |-> UpperChar(s[i])]

RECURSIVE DropWhitespace(_)
DropWhitespace(s) ==
    IF s # <<>> /\ Head(s) \in Whitespace THEN DropWhitespace(Tail(s)) ELSE s

\* String.prototype.replace(/\s+/g, "_"): each maximal run becomes one "_"
RECURSIVE replaceWhitespaceRuns(_)
replaceWhitespaceRuns(s) ==
    IF s = <<>> THEN <<>>
    ELSE IF Head(s) \in Whitespace
         THEN <<"_">> \o replaceWhitespaceRuns(DropWhitespace(Tail(s)))
         ELSE <<Head(s)>> \o replaceWhitespaceRuns(Tail(s))

\* ------------------------------------------------------------ role screen
MODULES == <<"user", "role", "recce", "installation">>
PermissionKeys == <<"view", "create", "edit", "delete">>

NoAccess == [view |-> FALSE, create |-> FALSE, edit |-> FALSE, delete |-> FALSE]
FullAccess == [view |-> TRUE, create |-> TRUE, edit |-> TRUE, delete |-> TRUE]
ViewOnly == [view |-> TRUE, create |-> FALSE, edit |-> FALSE, delete |-> FALSE]

generateDefaultPermissions == [m \in Range(MODULES) |-> NoAccess]

\* object spread { ...a, ...b }
Spread(a, b) ==
    [k \in (DOMAIN a) \cup (DOMAIN b) |-> IF k \in DOMAIN b THEN b[k] ELSE a[k]]

SUPER_ADMIN_UPPER == <<"S", "U", "P", "E", "R", "_", "A", "D", "M", "I", "N">>
SUPER_ADMIN_LOWER == <<"s", "u", "p", "e", "r", "_", "a", "d", "m", "i", "n">>
SUPER_ADMIN_MIXED == <<"S", "u", "p", "e", "r", "_", "A", "d", "m", "i", "n">>
FIELD_STAFF == <<"F", "I", "E", "L", "D", "_", "S", "T", "A", "F", "F">>

\* role records as GET /roles can return them (identifiers are assigned
\* when the store is laid out)
SeedRoles ==
    << [name |-> "Super Admin", code |-> SUPER_ADMIN_UPPER,
        permissions |-> [m \in Range(MODULES) |-> FullAccess]],
       [name |-> "Field Staff", code |-> FIELD_STAFF,
        permissions |-> [m \in {"user"} |-> ViewOnly]],
       [name |-> "Owner", code |-> SUPER_ADMIN_MIXED,
        permissions |-> [m \in {"recce", "legacy"} |-> FullAccess]],
       [name |-> "Root", code |-> SUPER_ADMIN_LOWER,
        permissions |-> [m \in {} |-> NoAccess]] >>

WithId(r, id) ==
    [_id |-> id, name |-> r.name, code |-> r.code, permissions |-> r.permissions]

\* the stores the server can hold when the screen is mounted
InitialRoleStores ==
    { <<WithId(SeedRoles[1], 1), WithId(SeedRoles[2], 2)>>,
      <<WithId(SeedRoles[3], 1), WithId(SeedRoles[4], 2)>> }

\* ---------------------------------------------------------------- state
VARIABLES
    mounted,        \* the page the router shows: "roles" or "users"
    rolesPage,      \* RolesPage's useState cells
    roleFetch,      \* the fetchData() call of RolesPage's mount effect
    roleSubmits,    \* suspended RolesPage.handleSubmit calls
    roleDeletes,    \* suspended RolesPage.handleDelete calls
    roleSubmitCount,\* submit clicks so far (bounded)
    serverRoles,    \* the roles the server stores
    nextRoleId,     \* next role identifier the server assigns (it grows by
                    \* one per accepted POST, so the submit bound caps it)
    usersPage,      \* UsersPage's useState cells
    userLoad,       \* the fetchData() call of UsersPage's mount effect
    userSubmits,    \* suspended UsersPage.handleSubmit calls
    userDeletes,    \* suspended UsersPage.handleDelete calls
    serverUsers,    \* the users the server stores
    nextUserId,     \* next user identifier the server assigns
    userSubmitCount,\* submit clicks so far (bounded)
    lastEvent       \* what the last handler step did: toasts, requests

\* what the actions of the user screen leave alone, and conversely
rolesClientVars == <<rolesPage, roleFetch, roleSubmits, roleDeletes,
                     roleSubmitCount>>
usersVars == <<usersPage, userLoad, userSubmits, userDeletes, userSubmitCount,
               serverUsers, nextUserId, mounted>>
vars == <<mounted, rolesPage, roleFetch, roleSubmits, roleDeletes,
          roleSubmitCount, serverRoles, nextRoleId, usersPage, userLoad,
          userSubmits, userDeletes, userSubmitCount, serverUsers, nextUserId,
          lastEvent>>

Toast(kind, msg) == [kind |-> kind, msg |-> msg]
Request(method, path, id, body) ==
    [method |-> method, path |-> path, id |-> id, body |-> body]

\* one handler step: its name, the toasts it showed, the requests it
\* issued, and the suspended call it resumed or created (if any)
Event(screen, op, toasts, requests, task) ==
    [screen |-> screen, op |-> op, toasts |-> toasts,
     requests |-> requests, task |-> task]

\* a step that shows no toast and issues no request and that no property
\* needs to tell apart: typing, opening, closing, a step of the server
Quiet == Event("", "", <<>>, <<>>, Null)

\* ============================================================ RolesPage
BlankRoleForm ==
    [name |-> "", code |-> <<>>, permissions |-> generateDefaultPermissions]

RolesPageInit ==
    [roles |-> <<>>, isLoading |-> TRUE, isModalOpen |-> FALSE,
     isSubmitting |-> FALSE, editingRole |-> Null, formData |-> BlankRoleForm]

\* what the user can type into the two text inputs
TypedRoleNames == {"Auditor"}
TypedRoleCodes ==
    { <<"s", "u", "p", "e", "r", " ", "a", "d", "m", "i", "n">> }

\* the checkboxes of the matrix the user clicks
ClickedModules == {"installation"}
ClickedKeys == {"view"}

\* the page shows the spinner instead of the grid and the modal while
\* isLoading is true
RolesRendered == mounted = "roles" /\ ~rolesPage.isLoading
RolesFormRendered == RolesRendered /\ rolesPage.isModalOpen
\* the open Modal dialog lies over the page: the buttons of the page
\* (Create Role, Edit, Delete) are clicked while it is closed
RolesPageClickable == RolesRendered /\ ~rolesPage.isModalOpen

\* --- fetchData, called by the mount effect
\* a request that is rejected changes nothing on the server, so the
\* rejection is taken when the client handles it: from phase "sent"
\* (or "fetch_sent", "write_sent") a call may resume with an error
Roles_fetchData_settled ==
    /\ mounted = "roles"
    /\ roleFetch.phase \in {"sent", "ok"}
    /\ rolesPage' =
         [rolesPage EXCEPT
            !.roles = IF roleFetch.phase = "ok" THEN roleFetch.data ELSE @,
            !.isLoading = FALSE]
    /\ roleFetch' = [phase |-> "done", data |-> <<>>]
    /\ lastEvent' =
         Event("roles", "fetchData",
               IF roleFetch.phase = "ok" THEN <<>>
               ELSE <<Toast("error", "Failed to load roles.")>>,
               <<>>, Some(roleFetch))
    /\ UNCHANGED <<roleSubmits, roleDeletes, roleSubmitCount, serverRoles, nextRoleId>>
    /\ UNCHANGED usersVars

\* Each opening of the form starts a form session.  A suspended handleSubmit
\* call records whether the session it was issued from is still the
\* current one ("current") or whether the form was opened again since
\* ("earlier"); the code keeps no such record, the field is bookkeeping.
Superseded(submits) ==
    [i \in DOMAIN submits |-> [submits[i] EXCEPT !.session = "earlier"]]

\* --- openCreateModal
Roles_openCreateModal ==
    /\ RolesPageClickable
    /\ rolesPage' =
         [rolesPage EXCEPT !.editingRole = Null,
                           !.formData = BlankRoleForm,
                           !.isModalOpen = TRUE]
    /\ roleSubmits' = Superseded(roleSubmits)
    /\ lastEvent' = Quiet
    /\ UNCHANGED <<roleFetch, roleDeletes, roleSubmitCount, serverRoles,
                   nextRoleId>>
    /\ UNCHANGED usersVars

\* variant: the stored mapping alone, without the defaults under it
mergedPermissions_storedOnly(role) == role.permissions

\* --- openEditModal
mergedPermissions(role) == Spread(generateDefaultPermissions, role.permissions)

Roles_editFormData(role) ==
    [name |-> role.name, code |-> role.code,
     permissions |-> mergedPermissions(role)]

Roles_openEditModal ==
    /\ RolesPageClickable
    /\ \E i \in DOMAIN rolesPage.roles :
         LET role == rolesPage.roles[i] IN
         /\ rolesPage' =
              [rolesPage EXCEPT !.editingRole = Some(role),
                                !.formData = Roles_editFormData(role),
                                !.isModalOpen = TRUE]
         /\ lastEvent' = Event("roles", "openEditModal", <<>>, <<>>, Null)
    /\ roleSubmits' = Superseded(roleSubmits)
    /\ UNCHANGED <<roleFetch, roleDeletes, roleSubmitCount, serverRoles,
                   nextRoleId>>
    /\ UNCHANGED usersVars

\* variant: the row is rebuilt from scratch instead of spread
togglePermission_resetsRow(prev, module, action) ==
    [prev EXCEPT
       !.permissions =
          Spread(prev.permissions,
                 [k \in {module} |->
                    [a \in DOMAIN prev.permissions[module] |->
                       IF a = action THEN ~prev.permissions[module][action]
                       ELSE FALSE]])]

\* --- togglePermission: the functional updater passed to setFormData
togglePermission(prev, module, action) ==
    [prev EXCEPT
       !.permissions =
          Spread(prev.permissions,
                 [k \in {module} |->
                    Spread(prev.permissions[module],
                           [a \in {action} |-> ~prev.permissions[module][action]])])]

Roles_togglePermission ==
    /\ RolesFormRendered
    /\ \E module \in ClickedModules, action \in ClickedKeys :
         /\ module \in DOMAIN rolesPage.formData.permissions
         /\ rolesPage' =
              [rolesPage EXCEPT
                 !.formData = togglePermission(rolesPage.formData, module, action)]
         /\ lastEvent' =
              Event("roles", "togglePermission", <<>>, <<>>,
                    Some([module |-> module, action |-> action]))
    /\ UNCHANGED <<roleFetch, roleSubmits, roleDeletes, roleSubmitCount, serverRoles,
                   nextRoleId>>
    /\ UNCHANGED usersVars

\* --- the two text inputs of the form
Roles_onChangeName ==
    /\ RolesFormRendered
    /\ \E value \in TypedRoleNames :
         rolesPage' = [rolesPage EXCEPT !.formData.name = value]
    /\ lastEvent' = Quiet
    /\ UNCHANGED <<roleFetch, roleSubmits, roleDeletes, roleSubmitCount, serverRoles,
                   nextRoleId>>
    /\ UNCHANGED usersVars

\* variant: the typed text is uppercased and nothing else
codeFromInput_upperOnly(value) == toUpperCase(value)

codeFromInput(value) == replaceWhitespaceRuns(toUpperCase(value))

\* variant: the code input is never disabled
Roles_codeInputAlwaysEnabled == TRUE

\* disabled={!!editingRole}
Roles_codeInputEnabled == rolesPage.editingRole = Null

Roles_onChangeCode ==
    /\ RolesFormRendered
    /\ Roles_codeInputEnabled
    /\ \E value \in TypedRoleCodes :
         /\ rolesPage' = [rolesPage EXCEPT !.formData.code = codeFromInput(value)]
         /\ lastEvent' = Quiet
    /\ UNCHANGED <<roleFetch, roleSubmits, roleDeletes, roleSubmitCount, serverRoles,
                   nextRoleId>>
    /\ UNCHANGED usersVars

\* the same handler with the text entered key by key: the input shows
\* formData.code, a key appends to it, a paste replaces it
CodeKeys == {"a", "B", "1", " ", "\t"}
PastedCodes ==
    { <<"f", "i", "e", "l", "d", " ", "s", "t", "a", "f", "f">>,
      <<"a", " ", "\t", "b">> }

Roles_onChangeCode_keys ==
    /\ RolesFormRendered
    /\ Roles_codeInputEnabled
    /\ \E value \in PastedCodes \cup
                     {Append(rolesPage.formData.code, k) : k \in CodeKeys} :
         /\ Len(value) <= MaxCodeLen \/ value \in PastedCodes
         /\ rolesPage' = [rolesPage EXCEPT !.formData.code = codeFromInput(value)]
         /\ lastEvent' = Event("roles", "onChangeCode", <<>>, <<>>, Some(value))
    /\ UNCHANGED <<roleFetch, roleSubmits, roleDeletes, roleSubmitCount, serverRoles,
                   nextRoleId>>
    /\ UNCHANGED usersVars

\* --- Modal onClose and the Cancel button
Roles_onClose ==
    /\ RolesFormRendered
    /\ rolesPage' = [rolesPage EXCEPT !.isModalOpen = FALSE]
    /\ lastEvent' = Quiet
    /\ UNCHANGED <<roleFetch, roleSubmits, roleDeletes, roleSubmitCount, serverRoles,
                   nextRoleId>>
    /\ UNCHANGED usersVars

\* variant: the submit button is not disabled while isSubmitting
Roles_canSubmit_ignoresFlag ==
    /\ RolesFormRendered
    /\ rolesPage.formData.name # ""

\* --- handleSubmit: up to the first await
\* the submit button is disabled while isSubmitting; required inputs block
\* the submit event (a disabled input is exempt from validation)
Roles_canSubmit ==
    /\ RolesFormRendered
    /\ ~rolesPage.isSubmitting
    /\ rolesPage.formData.name # ""
    /\ (Roles_codeInputEnabled => rolesPage.formData.code # <<>>)

Roles_writeRequest(editingRole, formData) ==
    IF editingRole # Null
    THEN Request("PUT", "/roles", Some(editingRole[1]._id), Some(formData))
    ELSE Request("POST", "/roles", Null, Some(formData))

Roles_handleSubmit ==
    /\ Roles_canSubmit
    /\ LET request == Roles_writeRequest(rolesPage.editingRole, rolesPage.formData)
           task == [editing |-> rolesPage.editingRole # Null,
                    request |-> Some(request),
                    phase |-> "write_sent", data |-> <<>>,
                    session |-> "current"]
       IN /\ roleSubmits' = Append(roleSubmits, task)
          /\ lastEvent' =
               Event("roles", "handleSubmit", <<>>, <<request>>,
                     Some([editingRole |-> rolesPage.editingRole,
                           formData |-> rolesPage.formData]))
    /\ rolesPage' = [rolesPage EXCEPT !.isSubmitting = TRUE]
    /\ roleSubmitCount < MaxRoleSubmits
    /\ roleSubmitCount' = roleSubmitCount + 1
    /\ UNCHANGED <<roleFetch, roleDeletes, serverRoles, nextRoleId>>
    /\ UNCHANGED usersVars

\* --- handleSubmit: the write resolved; toast, then fetchData() runs up to
\* its await
Roles_handleSubmit_writeResolved ==
    /\ \E i \in DOMAIN roleSubmits :
         LET task == roleSubmits[i] IN
         /\ task.phase = "write_ok"
         /\ roleSubmits' = [roleSubmits EXCEPT ![i].phase = "fetch_sent"]
         /\ lastEvent' =
              Event("roles", "handleSubmit_writeResolved",
                    <<Toast("success",
                            IF task.editing
                            THEN "Role updated successfully"
                            ELSE "Role created successfully")>>,
                    <<Request("GET", "/roles", Null, Null)>>, Some(task))
    /\ rolesPage' = [rolesPage EXCEPT !.isLoading = TRUE]
    /\ UNCHANGED <<roleFetch, roleDeletes, roleSubmitCount, serverRoles, nextRoleId>>
    /\ UNCHANGED usersVars

\* variant: the catch block also closes the form
Roles_submitRejected_closesForm(page) ==
    [page EXCEPT !.isSubmitting = FALSE, !.isModalOpen = FALSE]

\* --- handleSubmit: the write rejected; catch and finally
Roles_submitRejected(page) == [page EXCEPT !.isSubmitting = FALSE]

Roles_handleSubmit_writeRejected ==
    /\ \E i \in DOMAIN roleSubmits, msg \in ErrMessages :
         LET task == roleSubmits[i] IN
         /\ task.phase = "write_sent"
         /\ roleSubmits' = RemoveAt(roleSubmits, i)
         /\ lastEvent' =
              Event("roles", "handleSubmit_writeRejected",
                    <<Toast("error", OrElse(msg, "Operation failed"))>>,
                    <<>>, Some([task |-> task, msg |-> msg]))
    /\ rolesPage' = Roles_submitRejected(rolesPage)
    /\ UNCHANGED <<roleFetch, roleDeletes, roleSubmitCount, serverRoles, nextRoleId>>
    /\ UNCHANGED usersVars

\* --- handleSubmit: the awaited fetchData() finished (it catches its own
\* failure, so it never rejects); close the form; finally
Roles_afterRefetch(page, task) ==
    [page EXCEPT
       !.roles = IF task.phase = "fetch_ok" THEN task.data ELSE @,
       !.isLoading = FALSE,
       !.isModalOpen = FALSE,
       !.isSubmitting = FALSE]

Roles_handleSubmit_refetchSettled ==
    /\ \E i \in DOMAIN roleSubmits :
         LET task == roleSubmits[i] IN
         /\ task.phase \in {"fetch_ok", "fetch_sent"}
         /\ rolesPage' = Roles_afterRefetch(rolesPage, task)
         /\ roleSubmits' = RemoveAt(roleSubmits, i)
         /\ lastEvent' =
              Event("roles", "handleSubmit_refetchSettled",
                    IF task.phase = "fetch_ok" THEN <<>>
                    ELSE <<Toast("error", "Failed to load roles.")>>,
                    <<>>, Some(task))
    /\ UNCHANGED <<roleFetch, roleDeletes, roleSubmitCount, serverRoles, nextRoleId>>
    /\ UNCHANGED usersVars

\* --- the delete control of a role card
Roles_deleteControlRendered(role) ==
    role.code # SUPER_ADMIN_LOWER /\ role.code # SUPER_ADMIN_UPPER

\* --- handleDelete: window.confirm, then up to the await
Roles_handleDelete ==
    /\ RolesPageClickable
    /\ \E i \in DOMAIN rolesPage.roles, confirmed \in BOOLEAN :
         LET role == rolesPage.roles[i]
             task == [roleId |-> role._id, roles |-> rolesPage.roles,
                      phase |-> "sent"]
         IN /\ Roles_deleteControlRendered(role)
            /\ confirmed => Len(roleDeletes) < MaxRoleDeletes
            /\ roleDeletes' =
                 IF confirmed THEN Append(roleDeletes, task) ELSE roleDeletes
            /\ lastEvent' =
                 Event("roles", "handleDelete", <<>>,
                       IF confirmed
                       THEN <<Request("DELETE", "/roles", Some(role._id), Null)>>
                       ELSE <<>>,
                       Some([role |-> role, confirmed |-> confirmed]))
    /\ UNCHANGED <<rolesPage, roleFetch, roleSubmits, roleSubmitCount, serverRoles,
                   nextRoleId>>
    /\ UNCHANGED usersVars

\* --- handleDelete: after the await
Roles_handleDelete_settled ==
    /\ \E i \in DOMAIN roleDeletes, msg \in ErrMessages :
         LET task == roleDeletes[i] IN
         /\ task.phase \in {"ok", "sent"}
         /\ task.phase = "ok" => msg = Null
         /\ rolesPage' =
              [rolesPage EXCEPT
                 !.roles = IF task.phase = "ok"
                           THEN FilterOutId(task.roles, task.roleId) ELSE @]
         /\ roleDeletes' = RemoveAt(roleDeletes, i)
         /\ lastEvent' =
              Event("roles", "handleDelete_settled",
                    IF task.phase = "ok"
                    THEN <<Toast("success", "Role deleted successfully")>>
                    ELSE <<Toast("error", OrElse(msg, "Failed to delete role"))>>,
                    <<>>, Some(task))
    /\ UNCHANGED <<roleFetch, roleSubmits, roleSubmitCount, serverRoles, nextRoleId>>
    /\ UNCHANGED usersVars

\* ------------------------------------------- the server behind /roles
ReplaceById(list, id, rec) ==
    [j \in DOMAIN list |-> IF list[j]._id = id THEN rec ELSE list[j]]

Server_getRoles ==
    /\ \/ /\ roleFetch.phase = "sent"
          /\ roleFetch' = [phase |-> "ok", data |-> serverRoles]
          /\ UNCHANGED roleSubmits
       \/ /\ \E i \in DOMAIN roleSubmits :
               /\ roleSubmits[i].phase = "fetch_sent"
               /\ roleSubmits' =
                    [roleSubmits EXCEPT ![i].phase = "fetch_ok",
                                        ![i].data = serverRoles]
          /\ UNCHANGED roleFetch
    /\ lastEvent' = Quiet
    /\ UNCHANGED <<rolesPage, roleDeletes, roleSubmitCount, serverRoles, nextRoleId>>
    /\ UNCHANGED usersVars

Server_putRole ==
    /\ \E i \in DOMAIN roleSubmits :
         LET task == roleSubmits[i] IN
         /\ task.phase = "write_sent"
         /\ task.request[1].method = "PUT"
         /\ task.request[1].id[1] \in Ids(serverRoles)
         /\ serverRoles' =
              ReplaceById(serverRoles, task.request[1].id[1],
                          WithId(task.request[1].body[1], task.request[1].id[1]))
         /\ roleSubmits' = [roleSubmits EXCEPT ![i].phase = "write_ok",
                                               ![i].request = Null]
    /\ lastEvent' = Quiet
    /\ UNCHANGED <<rolesPage, roleFetch, roleDeletes, roleSubmitCount, nextRoleId>>
    /\ UNCHANGED usersVars

Server_postRole ==
    /\ \E i \in DOMAIN roleSubmits :
         LET task == roleSubmits[i] IN
         /\ task.phase = "write_sent"
         /\ task.request[1].method = "POST"
         /\ serverRoles' =
              Append(serverRoles, WithId(task.request[1].body[1], nextRoleId))
         /\ nextRoleId' = nextRoleId + 1
         /\ roleSubmits' = [roleSubmits EXCEPT ![i].phase = "write_ok",
                                               ![i].request = Null]
    /\ lastEvent' = Quiet
    /\ UNCHANGED <<rolesPage, roleFetch, roleDeletes, roleSubmitCount>>
    /\ UNCHANGED usersVars

Server_deleteRole ==
    /\ \E i \in DOMAIN roleDeletes :
         LET task == roleDeletes[i] IN
         /\ task.phase = "sent"
         /\ task.roleId \in Ids(serverRoles)
         /\ serverRoles' = FilterOutId(serverRoles, task.roleId)
         /\ roleDeletes' = [roleDeletes EXCEPT ![i].phase = "ok"]
    /\ lastEvent' = Quiet
    /\ UNCHANGED <<rolesPage, roleFetch, roleSubmits, roleSubmitCount, nextRoleId>>
    /\ UNCHANGED usersVars

\* ============================================================ UsersPage
MinPasswordLength == 6

BlankUserForm ==
    [name |-> "", email |-> "", password |-> <<>>, roleId |-> Null]

UsersPageInit ==
    [users |-> <<>>, roles |-> <<>>, isLoading |-> TRUE, error |-> "",
     isModalOpen |-> FALSE, isSubmitting |-> FALSE, editingUser |-> Null,
     formData |-> BlankUserForm]

\* what the user can type into the inputs
TypedUserNames == {"Ada"}
TypedUserEmails == {"ada@x.com"}
TypedPasswords == { <<"a", "b", "c">>, <<"s", "e", "c", "r", "e", "t", "1">> }

\* the role list GET /roles returns to the user screen
RolesForUsers == <<WithId(SeedRoles[2], 1)>>

User(id, name, email, role) ==
    [_id |-> id, name |-> name, email |-> email, role |-> role]

\* the stores the server can hold when the screen is mounted; the server
\* has handed out the identifiers below FirstNewUserId
InitialUserStores ==
    { <<User(1, "Bob", "bob@x.com", Some(RolesForUsers[1]))>>,
      <<User(1, "Bob", "bob@x.com", Null),
        User(2, "Cy", "cy@x.com", Some(RolesForUsers[1]))>> }

FirstNewUserId ==
    Cardinality(UNION {Ids(store) : store \in InitialUserStores}) + 1

UsersRendered == mounted = "users" /\ ~usersPage.isLoading
UsersFormRendered == UsersRendered /\ usersPage.isModalOpen
\* as on the role screen, the open dialog lies over the page's buttons
UsersPageClickable == UsersRendered /\ ~usersPage.isModalOpen

\* roles.find((r) => r._id === roleId)
FindRole(roles, roleId) ==
    IF roleId # Null /\ \E i \in DOMAIN roles : roles[i]._id = roleId[1]
    THEN Some(roles[CHOOSE i \in DOMAIN roles :
                      /\ roles[i]._id = roleId[1]
                      /\ \A j \in 1..(i - 1) : roles[j]._id # roleId[1]])
    ELSE Null

\* usersRes.data.users || usersRes.data: the body is { users: [...] }
\* (field users present) or the array itself (field users undefined)
usersFromResponse(res) == IF res.users # Null THEN res.users[1] ELSE res.array[1]

UsersResponses(list) ==
    { [users |-> Some(list), array |-> Null],
      [users |-> Null, array |-> Some(list)] }

\* --- fetchData, called by the mount effect: Promise.all settles when
\* both requests are fulfilled or as soon as one is rejected; a request
\* that settles after that is ignored
\* variant: a list that did arrive is shown although the load failed
Users_loadFailed_keepsPartial(page, load) ==
    [page EXCEPT !.error = "Failed to load data. Please check permissions.",
                 !.users = IF load.usersRes # Null
                           THEN usersFromResponse(load.usersRes[1]) ELSE @,
                 !.isLoading = FALSE]

Users_loadFailed(page, load) ==
    [page EXCEPT !.error = "Failed to load data. Please check permissions.",
                 !.isLoading = FALSE]

Users_loadSucceeded(page, usersRes, rolesRes) ==
    [page EXCEPT !.users = usersFromResponse(usersRes),
                 !.roles = rolesRes,
                 !.isLoading = FALSE]

\* variant: the joint promise settles only when both requests have settled
Users_promiseAll_waitsForBoth(load) ==
    IF load.users = "sent" \/ load.roles = "sent" THEN "pending"
    ELSE IF load.users = "err" \/ load.roles = "err" THEN "rejected"
    ELSE "fulfilled"

\* Promise.all([...]): rejected as soon as one request is rejected,
\* fulfilled when both are fulfilled
Users_promiseAll(load) ==
    IF load.users = "err" \/ load.roles = "err" THEN "rejected"
    ELSE IF load.users = "ok" /\ load.roles = "ok" THEN "fulfilled"
    ELSE "pending"

Users_fetchData_settle ==
    /\ mounted = "users"
    /\ \E which \in {"users", "roles"}, ok \in BOOLEAN,
          res \in UsersResponses(serverUsers) :
         LET after ==
               [userLoad EXCEPT
                  ![which] = IF ok THEN "ok" ELSE "err",
                  !.usersRes = IF which = "users" /\ ok /\ ~userLoad.finished
                               THEN Some(res) ELSE @,
                  !.rolesRes = IF which = "roles" /\ ok /\ ~userLoad.finished
                               THEN Some(serverRoles) ELSE @]
         IN
         /\ userLoad[which] = "sent"
         /\ (which = "roles" \/ ~ok \/ userLoad.finished)
               => res = [users |-> Null, array |-> Some(serverUsers)]
         /\ IF userLoad.finished
            THEN /\ userLoad' = after
                 /\ lastEvent' = Quiet
                 /\ UNCHANGED usersPage
            ELSE IF Users_promiseAll(after) = "rejected"
            THEN /\ userLoad' = [after EXCEPT !.finished = TRUE,
                                              !.usersRes = Null,
                                              !.rolesRes = Null]
                 /\ usersPage' = Users_loadFailed(usersPage, after)
                 /\ lastEvent' =
                      Event("users", "fetchData_rejected",
                            <<Toast("error", "Could not load users.")>>,
                            <<>>, Some(after))
            ELSE IF Users_promiseAll(after) = "fulfilled"
            THEN /\ userLoad' = [after EXCEPT !.finished = TRUE,
                                              !.usersRes = Null,
                                              !.rolesRes = Null]
                 /\ usersPage' =
                      Users_loadSucceeded(usersPage, after.usersRes[1],
                                          after.rolesRes[1])
                 /\ lastEvent' =
                      Event("users", "fetchData_resolved", <<>>, <<>>, Some(after))
            ELSE /\ userLoad' = after
                 /\ lastEvent' = Quiet
                 /\ UNCHANGED usersPage
    /\ UNCHANGED <<userSubmits, userDeletes, userSubmitCount, serverUsers,
                   nextUserId, serverRoles, nextRoleId, mounted>>
    /\ UNCHANGED rolesClientVars

\* --- openCreateModal
Users_openCreateModal ==
    /\ UsersPageClickable
    /\ usersPage' =
         [usersPage EXCEPT !.editingUser = Null,
                           !.formData = BlankUserForm,
                           !.isModalOpen = TRUE]
    /\ userSubmits' = Superseded(userSubmits)
    /\ lastEvent' = Quiet
    /\ UNCHANGED <<userLoad, userDeletes, userSubmitCount,
                   serverUsers, nextUserId, serverRoles, nextRoleId, mounted>>
    /\ UNCHANGED rolesClientVars

\* --- openEditModal
Users_editFormData(user) ==
    [name |-> user.name, email |-> user.email, password |-> <<>>,
     roleId |-> IF user.role # Null THEN Some(user.role[1]._id) ELSE Null]

Users_openEditModal ==
    /\ UsersPageClickable
    /\ \E i \in DOMAIN usersPage.users :
         LET user == usersPage.users[i] IN
         usersPage' =
           [usersPage EXCEPT !.editingUser = Some(user),
                             !.formData = Users_editFormData(user),
                             !.isModalOpen = TRUE]
    /\ lastEvent' = Event("users", "openEditModal", <<>>, <<>>, Null)
    /\ userSubmits' = Superseded(userSubmits)
    /\ UNCHANGED <<userLoad, userDeletes, userSubmitCount,
                   serverUsers, nextUserId, serverRoles, nextRoleId, mounted>>
    /\ UNCHANGED rolesClientVars

\* --- the inputs of the form
Users_onChange ==
    /\ UsersFormRendered
    /\ \/ \E value \in TypedUserNames :
            usersPage' = [usersPage EXCEPT !.formData.name = value]
       \/ \E value \in TypedUserEmails :
            usersPage' = [usersPage EXCEPT !.formData.email = value]
       \/ \E value \in TypedPasswords :
            usersPage' = [usersPage EXCEPT !.formData.password = value]
       \/ \E value \in {Null} \cup {Some(r) : r \in Ids(usersPage.roles)} :
            usersPage' = [usersPage EXCEPT !.formData.roleId = value]
    /\ lastEvent' = Quiet
    /\ UNCHANGED <<userLoad, userSubmits, userDeletes, userSubmitCount,
                   serverUsers, nextUserId, serverRoles, nextRoleId, mounted>>
    /\ UNCHANGED rolesClientVars

\* --- Modal onClose and the Cancel button
Users_onClose ==
    /\ UsersFormRendered
    /\ usersPage' = [usersPage EXCEPT !.isModalOpen = FALSE]
    /\ lastEvent' = Quiet
    /\ UNCHANGED <<userLoad, userSubmits, userDeletes, userSubmitCount,
                   serverUsers, nextUserId, serverRoles, nextRoleId, mounted>>
    /\ UNCHANGED rolesClientVars

\* --- handleSubmit: up to the first await
\* required: name, email, role; password required when creating;
\* minLength applies to a password that was typed
Users_canSubmit ==
    /\ UsersFormRendered
    /\ ~usersPage.isSubmitting
    /\ usersPage.formData.name # ""
    /\ usersPage.formData.email # ""
    /\ usersPage.formData.roleId # Null
    /\ (usersPage.editingUser = Null => usersPage.formData.password # <<>>)
    /\ (usersPage.formData.password # <<>>
          => Len(usersPage.formData.password) >= MinPasswordLength)

\* variant: the password field is always copied into the payload
payload_alwaysPassword(formData) ==
    [name |-> formData.name, email |-> formData.email,
     roleId |-> formData.roleId, password |-> formData.password]

payload(formData) ==
    LET base == [name |-> formData.name, email |-> formData.email,
                 roleId |-> formData.roleId]
    IN IF formData.password # <<>>
       THEN Spread(base, [k \in {"password"} |-> formData.password])
       ELSE base

Users_writeRequest(editingUser, formData) ==
    IF editingUser # Null
    THEN Request("PUT", "/users", Some(editingUser[1]._id), Some(payload(formData)))
    ELSE Request("POST", "/users", Null, Some(payload(formData)))

Users_handleSubmit ==
    /\ Users_canSubmit
    /\ userSubmitCount < MaxUserSubmits
    /\ userSubmitCount' = userSubmitCount + 1
    /\ LET request == Users_writeRequest(usersPage.editingUser, usersPage.formData)
           task == [editing |-> request.id,
                    roleId |-> usersPage.formData.roleId,
                    users |-> usersPage.users,
                    roles |-> usersPage.roles,
                    request |-> Some(request),
                    phase |-> "sent", saved |-> Null,
                    session |-> "current"]
       IN /\ userSubmits' = Append(userSubmits, task)
          /\ lastEvent' =
               Event("users", "handleSubmit", <<>>, <<request>>,
                     Some([editingUser |-> usersPage.editingUser,
                           formData |-> usersPage.formData]))
    /\ usersPage' = [usersPage EXCEPT !.isSubmitting = TRUE]
    /\ UNCHANGED <<userLoad, userDeletes, serverUsers, nextUserId, serverRoles,
                   nextRoleId, mounted>>
    /\ UNCHANGED rolesClientVars

\* --- handleSubmit: the write resolved
MapUpdated(users, id, updated) ==
    [j \in DOMAIN users |-> IF users[j]._id = id THEN updated ELSE users[j]]

Users_afterSave(task) ==
    LET withRole == [task.saved[1] EXCEPT !.role = FindRole(task.roles, task.roleId)]
    IN IF task.editing # Null
       THEN MapUpdated(task.users, task.editing[1], withRole)
       ELSE Append(task.users, withRole)

Users_handleSubmit_resolved ==
    /\ \E i \in DOMAIN userSubmits :
         LET task == userSubmits[i] IN
         /\ task.phase = "ok"
         /\ usersPage' =
              [usersPage EXCEPT !.users = Users_afterSave(task),
                                !.isModalOpen = FALSE,
                                !.isSubmitting = FALSE]
         /\ userSubmits' = RemoveAt(userSubmits, i)
         /\ lastEvent' =
              Event("users", "handleSubmit_resolved",
                    <<Toast("success",
                            IF task.editing # Null
                            THEN "User updated successfully!"
                            ELSE "User created successfully!")>>,
                    <<>>, Some(task))
    /\ UNCHANGED <<userLoad, userDeletes, userSubmitCount, serverUsers,
                   nextUserId, serverRoles, nextRoleId, mounted>>
    /\ UNCHANGED rolesClientVars

\* --- handleSubmit: the write rejected; catch and finally
Users_submitRejected(page) == [page EXCEPT !.isSubmitting = FALSE]

Users_handleSubmit_rejected ==
    /\ \E i \in DOMAIN userSubmits, msg \in ErrMessages :
         LET task == userSubmits[i] IN
         /\ task.phase = "sent"
         /\ userSubmits' = RemoveAt(userSubmits, i)
         /\ lastEvent' =
              Event("users", "handleSubmit_rejected",
                    <<Toast("error", OrElse(msg, "Operation failed"))>>,
                    <<>>, Some([task |-> task, msg |-> msg]))
    /\ usersPage' = Users_submitRejected(usersPage)
    /\ UNCHANGED <<userLoad, userDeletes, userSubmitCount, serverUsers,
                   nextUserId, serverRoles, nextRoleId, mounted>>
    /\ UNCHANGED rolesClientVars

\* --- handleDelete: window.confirm, then up to the await
Users_handleDelete ==
    /\ UsersPageClickable
    /\ \E i \in DOMAIN usersPage.users, confirmed \in BOOLEAN :
         LET user == usersPage.users[i]
             task == [userId |-> user._id, users |-> usersPage.users,
                      phase |-> "sent"]
         IN /\ confirmed => Len(userDeletes) < MaxUserDeletes
            /\ userDeletes' =
                 IF confirmed THEN Append(userDeletes, task) ELSE userDeletes
            /\ lastEvent' =
                 Event("users", "handleDelete", <<>>,
                       IF confirmed
                       THEN <<Request("DELETE", "/users", Some(user._id), Null)>>
                       ELSE <<>>,
                       Some([userId |-> user._id, confirmed |-> confirmed]))
    /\ UNCHANGED <<usersPage, userLoad, userSubmits, userSubmitCount,
                   serverUsers, nextUserId, serverRoles, nextRoleId, mounted>>
    /\ UNCHANGED rolesClientVars

\* --- handleDelete: after the await
Users_afterDelete(task) == FilterOutId(task.users, task.userId)

Users_handleDelete_settled ==
    /\ \E i \in DOMAIN userDeletes :
         LET task == userDeletes[i] IN
         /\ task.phase \in {"ok", "sent"}
         /\ usersPage' =
              [usersPage EXCEPT
                 !.users = IF task.phase = "ok" THEN Users_afterDelete(task) ELSE @]
         /\ userDeletes' = RemoveAt(userDeletes, i)
         /\ lastEvent' =
              Event("users", "handleDelete_settled",
                    IF task.phase = "ok"
                    THEN <<Toast("success", "User deleted successfully")>>
                    ELSE <<Toast("error", "Failed to delete user")>>,
                    <<>>, Some(task))
    /\ UNCHANGED <<userLoad, userSubmits, userSubmitCount, serverUsers,
                   nextUserId, serverRoles, nextRoleId, mounted>>
    /\ UNCHANGED rolesClientVars

\* ------------------------------------------- the server behind /users
SavedUser(id, body) ==
    User(id, body.name, body.email, FindRole(serverRoles, body.roleId))

Server_putUser ==
    /\ \E i \in DOMAIN userSubmits :
         LET task == userSubmits[i] IN
         /\ task.phase = "sent"
         /\ task.request[1].method = "PUT"
         /\ task.request[1].id[1] \in Ids(serverUsers)
         /\ LET saved == SavedUser(task.request[1].id[1], task.request[1].body[1])
            IN /\ serverUsers' = ReplaceById(serverUsers, saved._id, saved)
               /\ userSubmits' = [userSubmits EXCEPT ![i].phase = "ok",
                                                     ![i].request = Null,
                                                     ![i].saved = Some(saved)]
    /\ lastEvent' = Quiet
    /\ UNCHANGED <<usersPage, userLoad, userDeletes, userSubmitCount,
                   nextUserId, serverRoles, nextRoleId, mounted>>
    /\ UNCHANGED rolesClientVars

Server_postUser ==
    /\ \E i \in DOMAIN userSubmits :
         LET task == userSubmits[i] IN
         /\ task.phase = "sent"
         /\ task.request[1].method = "POST"
         /\ LET saved == SavedUser(nextUserId, task.request[1].body[1])
            IN /\ serverUsers' = Append(serverUsers, saved)
               /\ userSubmits' = [userSubmits EXCEPT ![i].phase = "ok",
                                                     ![i].request = Null,
                                                     ![i].saved = Some(saved)]
         /\ nextUserId' = nextUserId + 1
    /\ lastEvent' = Quiet
    /\ UNCHANGED <<usersPage, userLoad, userDeletes, userSubmitCount,
                   serverRoles, nextRoleId, mounted>>
    /\ UNCHANGED rolesClientVars

Server_deleteUser ==
    /\ \E i \in DOMAIN userDeletes :
         LET task == userDeletes[i] IN
         /\ task.phase = "sent"
         /\ task.userId \in Ids(serverUsers)
         /\ serverUsers' = FilterOutId(serverUsers, task.userId)
         /\ userDeletes' = [userDeletes EXCEPT ![i].phase = "ok"]
    /\ lastEvent' = Quiet
    /\ UNCHANGED <<usersPage, userLoad, userSubmits, userSubmitCount,
                   nextUserId, serverRoles, nextRoleId, mounted>>
    /\ UNCHANGED rolesClientVars

\* ------------------------------------------------------- specification
\* one page is mounted at a time; the other page's cells stay as
\* constructed and none of its calls is in flight
InitRoles ==
    /\ mounted = "roles"
    /\ rolesPage = RolesPageInit
    /\ roleFetch = [phase |-> "sent", data |-> <<>>]
    /\ roleSubmits = <<>>
    /\ roleDeletes = <<>>
    /\ roleSubmitCount = 0
    /\ serverRoles \in InitialRoleStores
    /\ nextRoleId = Len(serverRoles) + 1
    /\ usersPage = UsersPageInit
    /\ userLoad = [users |-> "none", roles |-> "none", usersRes |-> Null,
                   rolesRes |-> Null, finished |-> FALSE]
    /\ userSubmits = <<>>
    /\ userDeletes = <<>>
    /\ userSubmitCount = 0
    /\ serverUsers = <<>>
    /\ nextUserId = 1
    /\ lastEvent = Event("roles", "mount", <<>>,
                         <<Request("GET", "/roles", Null, Null)>>, Null)

InitUsers ==
    /\ mounted = "users"
    /\ rolesPage = RolesPageInit
    /\ roleFetch = [phase |-> "none", data |-> <<>>]
    /\ roleSubmits = <<>>
    /\ roleDeletes = <<>>
    /\ roleSubmitCount = 0
    /\ serverRoles = RolesForUsers
    /\ nextRoleId = Len(serverRoles) + 1
    /\ usersPage = UsersPageInit
    /\ userLoad = [users |-> "sent", roles |-> "sent", usersRes |-> Null,
                   rolesRes |-> Null, finished |-> FALSE]
    /\ userSubmits = <<>>
    /\ userDeletes = <<>>
    /\ userSubmitCount = 0
    /\ serverUsers \in InitialUserStores
    /\ nextUserId = FirstNewUserId
    /\ lastEvent = Event("users", "mount", <<>>,
                         <<Request("GET", "/users", Null, Null),
                           Request("GET", "/roles", Null, Null)>>, Null)

Init == InitRoles \/ InitUsers

Next ==
    \/ Roles_fetchData_settled
    \/ Roles_openCreateModal
    \/ Roles_openEditModal
    \/ Roles_togglePermission
    \/ Roles_onChangeName
    \/ Roles_onChangeCode
    \/ Roles_onClose
    \/ Roles_handleSubmit
    \/ Roles_handleSubmit_writeResolved
    \/ Roles_handleSubmit_writeRejected
    \/ Roles_handleSubmit_refetchSettled
    \/ Roles_handleDelete
    \/ Roles_handleDelete_settled
    \/ Server_getRoles
    \/ Server_putRole
    \/ Server_postRole
    \/ Server_deleteRole
    \/ Users_fetchData_settle
    \/ Users_openCreateModal
    \/ Users_openEditModal
    \/ Users_onChange
    \/ Users_onClose
    \/ Users_handleSubmit
    \/ Users_handleSubmit_resolved
    \/ Users_handleSubmit_rejected
    \/ Users_handleDelete
    \/ Users_handleDelete_settled
    \/ Server_putUser
    \/ Server_postUser
    \/ Server_deleteUser

Spec == Init /\ [][Next]_vars

\* the two forms alone: every action but the delete controls
NextForms ==
    \/ Roles_fetchData_settled
    \/ Roles_openCreateModal
    \/ Roles_openEditModal
    \/ Roles_togglePermission
    \/ Roles_onChangeName
    \/ Roles_onChangeCode
    \/ Roles_onClose
    \/ Roles_handleSubmit
    \/ Roles_handleSubmit_writeResolved
    \/ Roles_handleSubmit_writeRejected
    \/ Roles_handleSubmit_refetchSettled
    \/ Server_getRoles
    \/ Server_putRole
    \/ Server_postRole
    \/ Users_fetchData_settle
    \/ Users_openCreateModal
    \/ Users_openEditModal
    \/ Users_onChange
    \/ Users_onClose
    \/ Users_handleSubmit
    \/ Users_handleSubmit_resolved
    \/ Users_handleSubmit_rejected
    \/ Server_putUser
    \/ Server_postUser

SpecForms == Init /\ [][NextForms]_vars

\* the role form with its code typed key by key
NextCodeInput ==
    \/ Roles_fetchData_settled
    \/ Server_getRoles
    \/ Roles_openCreateModal
    \/ Roles_openEditModal
    \/ Roles_onChangeCode_keys
    \/ Roles_onClose

SpecCodeInput == InitRoles /\ [][NextCodeInput]_vars

\* ================================================================ claims
OnRoles(op) == lastEvent.screen = "roles" /\ lastEvent.op = op
OnUsers(op) == lastEvent.screen = "users" /\ lastEvent.op = op

\* C1: right after openEditModal(role) the draft's permissions have an
\* entry for every module of MODULES; a module the stored role lacks is
\* all-false, a module it has keeps its stored four values.
C1_EditDraftCoversModules ==
    OnRoles("openEditModal") =>
        LET stored == rolesPage.editingRole[1].permissions
            draft == rolesPage.formData.permissions
        IN \A m \in Range(MODULES) :
             /\ m \in DOMAIN draft
             /\ m \in DOMAIN stored => draft[m] = stored[m]
             /\ m \notin DOMAIN stored =>
                  \A a \in Range(PermissionKeys) : draft[m][a] = FALSE

\* an edit form just opened on a role that stores one module and lacks
\* the other three
C1_Witness ==
    /\ OnRoles("openEditModal")
    /\ "user" \in DOMAIN rolesPage.editingRole[1].permissions
    /\ "installation" \notin DOMAIN rolesPage.editingRole[1].permissions
    /\ rolesPage.formData.permissions["user"].view
    /\ ~rolesPage.formData.permissions["installation"].view

\* the draft differs from d exactly at (M, A), where it is negated
NegatedAt(d, d2, M, A) ==
    /\ d2.name = d.name
    /\ d2.code = d.code
    /\ DOMAIN d2.permissions = DOMAIN d.permissions
    /\ \A m \in DOMAIN d.permissions :
         /\ DOMAIN d2.permissions[m] = DOMAIN d.permissions[m]
         /\ \A a \in DOMAIN d.permissions[m] :
              d2.permissions[m][a] =
                 IF m = M /\ a = A THEN ~d.permissions[m][a]
                 ELSE d.permissions[m][a]

\* C2: togglePermission(M, A) on a draft covering M negates exactly the
\* boolean at (M, A); the rest of the draft, the role list and the modal
\* state are unchanged and no request is issued; applying it twice gives
\* the original draft back (for every checkbox of the resulting draft).
C2_ToggleFlipsOne ==
    [][ (lastEvent'.screen = "roles" /\ lastEvent'.op = "togglePermission") =>
          LET M == lastEvent'.task[1].module
              A == lastEvent'.task[1].action
          IN /\ NegatedAt(rolesPage.formData, rolesPage'.formData, M, A)
             /\ rolesPage' = [rolesPage EXCEPT !.formData = rolesPage'.formData]
             /\ lastEvent'.requests = <<>>
             /\ UNCHANGED <<roleFetch, roleSubmits, roleDeletes, serverRoles>>
             /\ \A m \in Range(MODULES), a \in Range(PermissionKeys) :
                  LET once == togglePermission(rolesPage'.formData, m, a)
                  IN /\ NegatedAt(rolesPage'.formData, once, m, a)
                     /\ togglePermission(once, m, a) = rolesPage'.formData
      ]_vars

\* a checkbox of the create form clicked twice: it is unchecked again
C2_Witness ==
    /\ OnRoles("togglePermission")
    /\ rolesPage.editingRole = Null
    /\ rolesPage.formData.permissions = generateDefaultPermissions

\* String.prototype.toLowerCase, for the case-insensitive comparison
LowerChar(c) ==
    IF \E i \in DOMAIN UpperLetters : UpperLetters[i] = c
    THEN LowerLetters[CHOOSE i \in DOMAIN UpperLetters : UpperLetters[i] = c]
    ELSE c

toLowerCase(str) == [i \in DOMAIN str |-> LowerChar(str[i])]

IsSuperAdmin(role) == toLowerCase(role.code) = SUPER_ADMIN_LOWER

\* C3: a role whose code is the super-admin code in any letter case has
\* no delete control, and no DELETE /roles/{id} is issued for it.
C3_SuperAdminNeverDeleted ==
    /\ \A i \in DOMAIN rolesPage.roles :
         (RolesRendered /\ IsSuperAdmin(rolesPage.roles[i]))
            => ~Roles_deleteControlRendered(rolesPage.roles[i])
    /\ (OnRoles("handleDelete") /\ lastEvent.requests # <<>>)
            => ~IsSuperAdmin(lastEvent.task[1].role)

\* C4: when a confirmed delete of user X succeeds, the roster after the
\* response is applied is the roster before it without the entry X;
\* when the confirmation is declined, no request is issued and the
\* roster is unchanged.
C4_DeleteRemovesExactlyOne ==
    [][ /\ (/\ lastEvent'.screen = "users"
            /\ lastEvent'.op = "handleDelete_settled"
            /\ lastEvent'.task[1].phase = "ok")
           => LET X == lastEvent'.task[1].userId
              IN Range(usersPage'.users) =
                   {u \in Range(usersPage.users) : u._id # X}
        /\ (/\ lastEvent'.screen = "users"
            /\ lastEvent'.op = "handleDelete"
            /\ ~lastEvent'.task[1].confirmed)
           => /\ lastEvent'.requests = <<>>
              /\ UNCHANGED <<usersPage, userDeletes>>
      ]_vars

\* C5: a user whose create succeeded is in the roster exactly once, with
\* the loaded role of the submitted roleId, and stays there until a
\* delete of it succeeds; no two roster entries share an identifier.
CreatedIds == {id \in Ids(usersPage.users) : id >= FirstNewUserId}

C5_CreatedUserStays ==
    [][ /\ (/\ lastEvent'.screen = "users"
            /\ lastEvent'.op = "handleSubmit_resolved"
            /\ lastEvent'.task[1].editing = Null)
           => LET I == lastEvent'.task[1].saved[1]._id
              IN /\ Cardinality({i \in DOMAIN usersPage'.users :
                                   usersPage'.users[i]._id = I}) = 1
                 /\ \A i \in DOMAIN usersPage'.users :
                      usersPage'.users[i]._id = I =>
                        usersPage'.users[i].role =
                           FindRole(usersPage'.roles, lastEvent'.task[1].roleId)
        /\ \A I \in Ids(usersPage.users) :
             (I \in CreatedIds /\ I \in Ids(serverUsers'))
                => I \in Ids(usersPage'.users)
        /\ \A i, j \in DOMAIN usersPage'.users :
             usersPage'.users[i]._id = usersPage'.users[j]._id => i = j
      ]_vars

\* C6: a user create or update request carries a password field exactly
\* when the draft's password is non-empty at submit time (and then that
\* password); otherwise the payload is name, email and roleId only.
\* Opening the edit form leaves the draft password empty.
C6_PasswordOnlyWhenTyped ==
    /\ OnUsers("handleSubmit") =>
         LET body == lastEvent.requests[1].body[1]
             draft == lastEvent.task[1].formData
         IN /\ Len(lastEvent.requests) = 1
            /\ ("password" \in DOMAIN body) <=> (draft.password # <<>>)
            /\ "password" \in DOMAIN body => body.password = draft.password
            /\ DOMAIN body \ {"password"} = {"name", "email", "roleId"}
            /\ body.name = draft.name
            /\ body.email = draft.email
            /\ body.roleId = draft.roleId
    /\ OnUsers("openEditModal") => usersPage.formData.password = <<>>

\* an update submitted with the password left empty
C6_Witness ==
    /\ OnUsers("handleSubmit")
    /\ lastEvent.requests[1].method = "PUT"
    /\ "password" \notin DOMAIN lastEvent.requests[1].body[1]
    /\ lastEvent.task[1].formData.name = "Ada"

\* C7: when GET /users or GET /roles of the initial load rejects, then as
\* the load finishes the banner reads "Failed to load data. Please check
\* permissions.", an error toast was shown, roster and role list are
\* empty (also when the other request succeeded) and isLoading is false.
C7_LoadFailure ==
    OnUsers("fetchData_rejected") =>
        /\ usersPage.error = "Failed to load data. Please check permissions."
        /\ \E i \in DOMAIN lastEvent.toasts : lastEvent.toasts[i].kind = "error"
        /\ usersPage.users = <<>>
        /\ usersPage.roles = <<>>
        /\ ~usersPage.isLoading

\* the load fails on GET /roles after GET /users has succeeded
C7_Witness ==
    /\ OnUsers("fetchData_rejected")
    /\ lastEvent.task[1].users = "ok"
    /\ lastEvent.task[1].usersRes # Null
    /\ lastEvent.task[1].roles = "err"

\* C8: handling a rejected create or update leaves the modal's open
\* state, the editing target, the draft and the list as they were, shows
\* one error toast with the server's message when there is one and
\* "Operation failed" otherwise, and sets isSubmitting to false.
RejectionToast ==
    LET msg == lastEvent'.task[1].msg
    IN lastEvent'.toasts =
         <<Toast("error", IF msg # Null /\ msg # Some("") THEN msg[1]
                          ELSE "Operation failed")>>

C8_RejectedSubmitKeepsForm ==
    [][ /\ (lastEvent'.screen = "roles" /\
            lastEvent'.op = "handleSubmit_writeRejected")
           => /\ rolesPage' = [rolesPage EXCEPT !.isSubmitting = FALSE]
              /\ ~rolesPage'.isSubmitting
              /\ RejectionToast
        /\ (lastEvent'.screen = "users" /\
            lastEvent'.op = "handleSubmit_rejected")
           => /\ usersPage' = [usersPage EXCEPT !.isSubmitting = FALSE]
              /\ ~usersPage'.isSubmitting
              /\ RejectionToast
      ]_vars

\* a rejection without a message handled while the form is open
C8_Witness ==
    /\ lastEvent.op \in {"handleSubmit_writeRejected", "handleSubmit_rejected"}
    /\ lastEvent.task[1].msg = Null
    /\ lastEvent.toasts[1].msg = "Operation failed"
    /\ \/ mounted = "roles" /\ rolesPage.isModalOpen /\ rolesPage.editingRole # Null
       \/ mounted = "users" /\ usersPage.isModalOpen /\ usersPage.editingUser # Null

\* C9: when the role form is closed by a successful create or update,
\* the role list is the list a GET /roles returned that was issued after
\* the write succeeded and that itself succeeded.
C9_ClosedWithRefetchedList ==
    OnRoles("handleSubmit_refetchSettled") =>
        /\ lastEvent.task[1].phase = "fetch_ok"
        /\ rolesPage.roles = lastEvent.task[1].data

\* C10: every PUT /roles/{id} carries the code the role {id} had when its
\* edit form was opened, and no step changes the code the server stores
\* for an identifier.
C10_CodeWriteOnce ==
    [][ /\ (/\ lastEvent'.screen = "roles"
            /\ lastEvent'.op = "handleSubmit"
            /\ lastEvent'.requests[1].method = "PUT")
           => LET opened == lastEvent'.task[1].editingRole[1]
              IN /\ lastEvent'.requests[1].id = Some(opened._id)
                 /\ lastEvent'.requests[1].body[1].code = opened.code
        /\ \A i \in DOMAIN serverRoles, j \in DOMAIN serverRoles' :
             serverRoles[i]._id = serverRoles'[j]._id
                => serverRoles[i].code = serverRoles'[j].code
      ]_vars

\* an accepted PUT has changed the stored name of a role
C10_Witness ==
    /\ mounted = "roles"
    /\ \E i \in DOMAIN serverRoles :
         /\ serverRoles[i].name = "Auditor"
         /\ serverRoles[i].code = FIELD_STAFF
         /\ serverRoles[i].permissions["installation"].view

\* C11: on both screens the form leaves the creating or editing state only
\* by cancel or by the success of a submit issued from the same form
\* session (a response to a submit of an earlier, cancelled session never
\* closes a form opened afterwards), and every opening starts from a
\* draft made of blanks or of the selected record.
C11_FormStateMachine ==
    [][ /\ (rolesPage.isModalOpen /\ ~rolesPage'.isModalOpen) =>
             \/ /\ rolesPage' = [rolesPage EXCEPT !.isModalOpen = FALSE]
                /\ UNCHANGED roleSubmits
             \/ /\ lastEvent'.screen = "roles"
                /\ lastEvent'.op = "handleSubmit_refetchSettled"
                /\ lastEvent'.task[1].session = "current"
        /\ (usersPage.isModalOpen /\ ~usersPage'.isModalOpen) =>
             \/ /\ usersPage' = [usersPage EXCEPT !.isModalOpen = FALSE]
                /\ UNCHANGED userSubmits
             \/ /\ lastEvent'.screen = "users"
                /\ lastEvent'.op = "handleSubmit_resolved"
                /\ lastEvent'.task[1].session = "current"
        /\ (~rolesPage.isModalOpen /\ rolesPage'.isModalOpen) =>
             \/ /\ rolesPage'.editingRole = Null
                /\ rolesPage'.formData = BlankRoleForm
             \/ \E i \in DOMAIN rolesPage.roles :
                  /\ rolesPage'.editingRole = Some(rolesPage.roles[i])
                  /\ rolesPage'.formData.name = rolesPage.roles[i].name
                  /\ rolesPage'.formData.code = rolesPage.roles[i].code
                  /\ \A m \in DOMAIN rolesPage.roles[i].permissions :
                       rolesPage'.formData.permissions[m] =
                          rolesPage.roles[i].permissions[m]
        /\ (~usersPage.isModalOpen /\ usersPage'.isModalOpen) =>
             \/ /\ usersPage'.editingUser = Null
                /\ usersPage'.formData = BlankUserForm
             \/ \E i \in DOMAIN usersPage.users :
                  /\ usersPage'.editingUser = Some(usersPage.users[i])
                  /\ usersPage'.formData.name = usersPage.users[i].name
                  /\ usersPage'.formData.email = usersPage.users[i].email
                  /\ usersPage'.formData.password = <<>>
      ]_vars

\* C13 as stated: the loading flag of the user screen is false only when
\* neither GET /users nor GET /roles of the load is still outstanding.
C13_LoadingUntilBothSettled ==
    (mounted = "users" /\ ~usersPage.isLoading) =>
        (userLoad.users # "sent" /\ userLoad.roles # "sent")

\* C13 amended: the load is over (isLoading false) exactly when one of the
\* two requests has been rejected or both have been fulfilled; the lists
\* are shown only when both were fulfilled, and a response that arrives
\* after a rejection changes nothing on the page.
C13_LoadingUntilRejectedOrBothFulfilled ==
    mounted = "users" =>
        /\ usersPage.isLoading <=>
              /\ userLoad.users # "err"
              /\ userLoad.roles # "err"
              /\ ~(userLoad.users = "ok" /\ userLoad.roles = "ok")
        /\ (userLoad.users = "err" \/ userLoad.roles = "err")
              => (usersPage.users = <<>> /\ usersPage.roles = <<>>)

\* GET /users was rejected and the page is interactive while GET /roles
\* is still outstanding
C13_Witness ==
    /\ mounted = "users"
    /\ ~usersPage.isLoading
    /\ userLoad.users = "err"
    /\ userLoad.roles = "sent"

\* C14: on each screen at most one create/update request is outstanding:
\* isSubmitting is true from the submit until its handling (on the role
\* screen the re-fetch included) has finished, the form cannot be
\* submitted while it is true, also not after cancelling and reopening.
C14_OneSubmitOutstanding ==
    /\ Len(roleSubmits) <= 1
    /\ Len(userSubmits) <= 1
    /\ rolesPage.isSubmitting <=> roleSubmits # <<>>
    /\ usersPage.isSubmitting <=> userSubmits # <<>>
    /\ roleSubmits # <<>> => ~Roles_canSubmit
    /\ userSubmits # <<>> => ~Users_canSubmit

\* the role form was cancelled and opened again while its request is
\* outstanding, and is filled in: only the flag holds the submit back
C14_Witness ==
    /\ roleSubmits # <<>>
    /\ roleSubmits[1].session = "earlier"
    /\ RolesFormRendered
    /\ rolesPage.isSubmitting
    /\ rolesPage.formData.name # ""
    /\ rolesPage.formData.code # <<>>

\* C15: after a successful load, whenever no create, update or delete
\* request of the user screen is outstanding, the identifiers in the
\* roster are the identifiers of the users the server stores.
C15_RosterMatchesServer ==
    (/\ mounted = "users"
     /\ userLoad.finished
     /\ usersPage.error = ""
     /\ userSubmits = <<>>
     /\ userDeletes = <<>>)
        => Ids(usersPage.users) = Ids(serverUsers)

\* C12: the code input handler turns the typed text into its uppercase
\* with whitespace replaced by underscores: "field staff" gives
\* "FIELD_STAFF"; a text without adjacent whitespace characters keeps its
\* length, each whitespace character becoming "_" and each other
\* character its uppercase; and in create mode the draft code never holds
\* a lowercase letter or a whitespace character.
C12_CodeUppercasedUnderscored ==
    [][ /\ (lastEvent'.screen = "roles" /\ lastEvent'.op = "onChangeCode") =>
             LET v == lastEvent'.task[1]
                 c == rolesPage'.formData.code
             IN /\ v = <<"f", "i", "e", "l", "d", " ", "s", "t", "a", "f", "f">>
                     => c = FIELD_STAFF
                /\ (\A i \in 1..(Len(v) - 1) :
                       ~(v[i] \in Whitespace /\ v[i + 1] \in Whitespace))
                     => /\ Len(c) = Len(v)
                        /\ \A i \in DOMAIN v :
                             IF v[i] \in Whitespace THEN c[i] = "_"
                             ELSE LowerChar(c[i]) = LowerChar(v[i])
        /\ rolesPage'.editingRole = Null =>
             \A i \in DOMAIN rolesPage'.formData.code :
                /\ rolesPage'.formData.code[i] \notin Range(LowerLetters)
                /\ rolesPage'.formData.code[i] \notin Whitespace
      ]_vars

\* "field staff" was pasted into the code input of the create form
C12_Witness ==
    /\ OnRoles("onChangeCode")
    /\ lastEvent.task[1] = <<"f", "i", "e", "l", "d", " ", "s", "t", "a", "f", "f">>
    /\ rolesPage.editingRole = Null
    /\ rolesPage.formData.code = FIELD_STAFF

====
